---------------------------- MODULE Spec2Model ----------------------------
(* A model of KL13NT/pr-doc-watch-action: the link checker that scans the  *)
(* changed files of a pull request for links in code comments and picks    *)
(* one of three report templates.                                          *)
(*                                                                         *)
(* Text is modelled character by character: a string is a sequence of      *)
(* one-character strings, and every regular expression of the source is    *)
(* an operator that computes the matches the JavaScript engine computes.   *)
EXTENDS Integers, Sequences, FiniteSets, TLC

(***************************************************************************)
(* Strings                                                                 *)
(***************************************************************************)

MinOf(S) == CHOOSE x \in S : \A y \in S : x <= y
MaxOf(S) == CHOOSE x \in S : \A y \in S : y <= x

RECURSIVE Flatten(_)
Flatten(ss) == IF ss = <<>> THEN <<>> ELSE Head(ss) \o Flatten(Tail(ss))

\* the whitespace class of a regular expression, and what trim() strips
IsWhite(c) == c \in {" ", "\t", "\n", "\r"}
\* the line terminators: what a dot does not match and what a caret (flag m) follows
IsLineTerminator(c) == c \in {"\n", "\r"}

\* s has p as a substring starting at index i
StartsWithAt(s, i, p) ==
    /\ i >= 1
    /\ i + Len(p) - 1 <= Len(s)
    /\ \A k \in 1..Len(p) : s[i + k - 1] = p[k]

startsWith(s, p) == StartsWithAt(s, 1, p)
endsWith(s, p) == StartsWithAt(s, Len(s) - Len(p) + 1, p)

trim(s) ==
    LET keep == {i \in 1..Len(s) : ~IsWhite(s[i])}
    IN  IF keep = {} THEN <<>> ELSE SubSeq(s, MinOf(keep), MaxOf(keep))

\* s.replace of a leading p by the empty string
StripPrefix(s, p) == IF startsWith(s, p) THEN SubSeq(s, Len(p) + 1, Len(s)) ELSE s
\* s.replace of a trailing p by the empty string
StripSuffix(s, p) == IF endsWith(s, p) THEN SubSeq(s, 1, Len(s) - Len(p)) ELSE s

\* the caret under flag m: the start of the text or just after a line terminator
AtLineStart(s, i) == i = 1 \/ (i > 1 /\ i - 1 <= Len(s) /\ IsLineTerminator(s[i - 1]))

\* where a dot-star started at i stops: the next line terminator or the end
LineEnd(s, i) ==
    MinOf({j \in i..(Len(s) + 1) : j = Len(s) + 1 \/ IsLineTerminator(s[j])})

(***************************************************************************)
(* COMMENT_PATTERNS and extractComments                                    *)
(***************************************************************************)

\* the characters a link match stops at (the negated class of both link patterns)
\* (the grave accent cannot be written in a string of this language: it is the
\* character named "grave")
ExcludedChars == {"<", ">", "\"", "'", "{", "}", "|", "\\", "^", "grave", "[", "]"}
IsLinkChar(c) == ~IsWhite(c) /\ c \notin ExcludedChars

\* the end of the maximal run of link characters that holds index i
RunEnd(s, i) ==
    MinOf({j \in i..(Len(s) + 1) : j = Len(s) + 1 \/ ~IsLinkChar(s[j])}) - 1


\* COMMENT_PATTERNS: each row is the regular expression's shape. A "line" row is
\* caret, open, then the group (dot-star); a "block" row is caret, open, the lazy
\* group over any characters, then close. All five carry the flags g and m.
COMMENT_PATTERNS == <<
    [name |-> "C-style single", kind |-> "line",  open |-> <<"/", "/">>, close |-> <<>>],
    [name |-> "C-style multi",  kind |-> "block", open |-> <<"/", "*">>, close |-> <<"*", "/">>],
    [name |-> "Hash",           kind |-> "line",  open |-> <<"#">>,      close |-> <<>>],
    [name |-> "HTML",           kind |-> "block", open |-> <<"<", "!", "-", "-">>,
                                                  close |-> <<"-", "-", ">">>],
    [name |-> "SQL",            kind |-> "line",  open |-> <<"-", "-">>, close |-> <<>>] >>

\* where a match of pattern pat may start: at a line start, on its open marker
\* and, for a block, with its close marker somewhere after the open marker
MatchStarts(s, pat, from) ==
    {i \in from..Len(s) :
        /\ AtLineStart(s, i)
        /\ StartsWithAt(s, i, pat.open)
        /\ pat.kind = "block" =>
              \E j \in (i + Len(pat.open))..Len(s) : StartsWithAt(s, j, pat.close)}

\* the index just after the group of the match that starts at i
GroupEnd(s, pat, i) ==
    IF pat.kind = "line"
    THEN LineEnd(s, i + Len(pat.open))
    ELSE MinOf({j \in (i + Len(pat.open))..Len(s) : StartsWithAt(s, j, pat.close)})

\* content.matchAll(pattern.regex) mapped to the trimmed group "url": the
\* matches from index from on, leftmost first, each search starting where the
\* previous match ended
RECURSIVE matchAll(_, _, _)
matchAll(s, pat, from) ==
    LET starts == MatchStarts(s, pat, from)
    IN  IF starts = {} THEN <<>>
        ELSE LET i == MinOf(starts)
                 e == GroupEnd(s, pat, i)
             IN  <<trim(SubSeq(s, i + Len(pat.open), e - 1))>>
                     \o matchAll(s, pat, e + Len(pat.close))

RECURSIVE CommentsFrom(_, _)
CommentsFrom(content, k) ==
    IF k > Len(COMMENT_PATTERNS) THEN <<>>
    ELSE matchAll(content, COMMENT_PATTERNS[k], 1) \o CommentsFrom(content, k + 1)

extractComments(content) == CommentsFrom(content, 1)

(***************************************************************************)
(* ABSOLUTE_URL_PATTERN, RELATIVE_PATH_PATTERN and extractLinks            *)
(***************************************************************************)

HTTP == <<"h", "t", "t", "p">>
SCHEME_HTTP == <<"h", "t", "t", "p", ":", "/", "/">>
SCHEME_HTTPS == <<"h", "t", "t", "p", "s", ":", "/", "/">>

\* ABSOLUTE_URL_PATTERN matches at i: http, an optional s, a colon and two
\* slashes, then one link character or more
AbsoluteAt(s, i) ==
    \/ StartsWithAt(s, i, SCHEME_HTTPS) /\ i + 8 <= Len(s) /\ IsLinkChar(s[i + 8])
    \/ StartsWithAt(s, i, SCHEME_HTTP) /\ i + 7 <= Len(s) /\ IsLinkChar(s[i + 7])

\* RELATIVE_PATH_PATTERN matches at i: dot dot slash, dot slash or a slash,
\* then one link character or more
RelativeAt(s, i) ==
    \/ StartsWithAt(s, i, <<".", ".", "/">>) /\ i + 3 <= Len(s) /\ IsLinkChar(s[i + 3])
    \/ StartsWithAt(s, i, <<".", "/">>) /\ i + 2 <= Len(s) /\ IsLinkChar(s[i + 2])
    \/ StartsWithAt(s, i, <<"/">>) /\ i + 1 <= Len(s) /\ IsLinkChar(s[i + 1])

\* s.match(pattern) under flag g: every match from index from on, leftmost
\* first, without overlap; each match runs to the end of its run of link
\* characters (the class is greedy and every prefix character is in it)
RECURSIVE matchAbsolute(_, _)
matchAbsolute(s, from) ==
    LET starts == {i \in from..Len(s) : AbsoluteAt(s, i)}
    IN  IF starts = {} THEN <<>>
        ELSE LET i == MinOf(starts)
                 e == RunEnd(s, i)
             IN  <<SubSeq(s, i, e)>> \o matchAbsolute(s, e + 1)

RECURSIVE matchRelative(_, _)
matchRelative(s, from) ==
    LET starts == {i \in from..Len(s) : RelativeAt(s, i)}
    IN  IF starts = {} THEN <<>>
        ELSE LET i == MinOf(starts)
                 e == RunEnd(s, i)
             IN  <<SubSeq(s, i, e)>> \o matchRelative(s, e + 1)

\* the chain of replace calls that removes the comment syntax
cleanComment(comment) ==
    LET c1 == StripPrefix(comment, <<"/", "/">>)
        c2 == StripSuffix(StripPrefix(c1, <<"/", "*">>), <<"*", "/">>)
        c3 == StripPrefix(c2, <<"#">>)
        c4 == StripPrefix(c3, <<"-", "-">>)
        c5 == StripPrefix(c4, <<"<", "!", "-", "-">>)
    IN  StripSuffix(c5, <<"-", "-", ">">>)

\* what one comment hands to links.add, in order: the absolute matches, then
\* the relative ones, each trimmed
CommentMatches(comment) ==
    LET c == cleanComment(comment)
        all == matchAbsolute(c, 1) \o matchRelative(c, 1)
    IN  [k \in 1..Len(all) |-> trim(all[k])]

\* a mutant of SetAdd: an array in place of the Set, every match pushed
SetAddAlways(links, link) == Append(links, link)

\* Set.add over a sequence: a value already in the set keeps its first place
SetAdd(links, link) ==
    IF \E k \in 1..Len(links) : links[k] = link THEN links ELSE Append(links, link)

RECURSIVE AddAll(_, _)
AddAll(links, ms) ==
    IF ms = <<>> THEN links ELSE AddAll(SetAdd(links, Head(ms)), Tail(ms))

RECURSIVE LinksFrom(_, _)
LinksFrom(links, comments) ==
    IF comments = <<>> THEN links
    ELSE LinksFrom(AddAll(links, CommentMatches(Head(comments))), Tail(comments))

\* Array.from(links) of the Set filled comment by comment
extractLinks(comments) == LinksFrom(<<>>, comments)

(***************************************************************************)
(* Paths (node:path, POSIX)                                                *)
(***************************************************************************)

\* a path text cut at its slashes
RECURSIVE Split(_)
Split(s) ==
    LET slashes == {i \in 1..Len(s) : s[i] = "/"}
    IN  IF slashes = {} THEN <<s>>
        ELSE LET i == MinOf(slashes)
             IN  <<SubSeq(s, 1, i - 1)>> \o Split(SubSeq(s, i + 1, Len(s)))

RECURSIVE Join(_)
Join(segs) ==
    IF segs = <<>> THEN <<>>
    ELSE IF Len(segs) = 1 THEN segs[1]
    ELSE segs[1] \o <<"/">> \o Join(Tail(segs))

DOT == <<".">>
DOTDOT == <<".", ".">>

\* normalizeString: empty and dot segments go, a dot-dot segment takes the
\* segment before it away; above the top it is dropped (an absolute path) or
\* kept (a relative one)
RECURSIVE Normalize(_, _, _)
Normalize(done, segs, allowAboveRoot) ==
    IF segs = <<>> THEN done
    ELSE LET seg == Head(segs)
             rest == Tail(segs)
         IN  IF seg = <<>> \/ seg = DOT THEN Normalize(done, rest, allowAboveRoot)
             ELSE IF seg = DOTDOT
             THEN IF done # <<>> /\ done[Len(done)] # DOTDOT
                  THEN Normalize(SubSeq(done, 1, Len(done) - 1), rest, allowAboveRoot)
                  ELSE IF allowAboveRoot
                  THEN Normalize(Append(done, seg), rest, allowAboveRoot)
                  ELSE Normalize(done, rest, allowAboveRoot)
             ELSE Normalize(Append(done, seg), rest, allowAboveRoot)

IsAbsolutePath(s) == startsWith(s, <<"/">>)

\* process.cwd(): the segments of the working root, the checkout of the
\* repository on the runner
Cwd == << <<"w">> >>

\* path.dirname of a file name
dirname(p) ==
    LET slashes == {i \in 1..Len(p) : p[i] = "/"}
    IN  IF slashes = {} THEN DOT
        ELSE IF MaxOf(slashes) = 1 THEN <<"/">>
        ELSE SubSeq(p, 1, MaxOf(slashes) - 1)

\* path.resolve(a, b, ...): the arguments are taken from the right until one
\* is absolute, the working directory standing before them all; the result is
\* an absolute path, given here as its segments below the file-system root
RECURSIVE ResolveFrom(_, _)
ResolveFrom(args, tail) ==
    IF args = <<>> THEN Normalize(<<>>, Cwd \o tail, FALSE)
    ELSE LET a == args[Len(args)]
             front == SubSeq(args, 1, Len(args) - 1)
         IN  IF a = <<>> THEN ResolveFrom(front, tail)
             ELSE IF IsAbsolutePath(a) THEN Normalize(<<>>, Split(a) \o tail, FALSE)
             ELSE ResolveFrom(front, Split(a) \o tail)

resolve(args) == ResolveFrom(args, <<>>)

\* the text of process.cwd()
CwdText == <<"/">> \o Join(Cwd)

\* path.relative(process.cwd(), to) for an absolute path to, given as segments:
\* one dot-dot for each segment of the working root that to leaves, then the
\* rest of to
RECURSIVE CommonLen(_, _)
CommonLen(a, b) ==
    IF a = <<>> \/ b = <<>> \/ Head(a) # Head(b) THEN 0
    ELSE 1 + CommonLen(Tail(a), Tail(b))

relative(from, to) ==
    LET n == CommonLen(from, to)
    IN  Join([k \in 1..(Len(from) - n) |-> DOTDOT] \o SubSeq(to, n + 1, Len(to)))

\* path.join(a, b): the two joined by a slash and normalised, as text
join(a, b) ==
    LET segs == Normalize(<<>>, Split(a) \o Split(b), ~IsAbsolutePath(a))
    IN  IF IsAbsolutePath(a) THEN <<"/">> \o Join(segs)
        ELSE IF segs = <<>> THEN DOT ELSE Join(segs)

(***************************************************************************)
(* The run's inputs: the files of the repository and what they hold        *)
(***************************************************************************)

\* src/app.js
SRC_APP_JS ==
    <<"s", "r", "c", "/", "a", "p", "p", ".", "j", "s">>

\* docs/guide.md
DOCS_GUIDE_MD ==
    <<"d", "o", "c", "s", "/", "g", "u", "i", "d", "e", ".", "m", "d">>

\* README.md
README_MD ==
    <<"R", "E", "A", "D", "M", "E", ".", "m", "d">>

\* // see ./docs/guide.md
SEE_DOT_GUIDE ==
    <<"/", "/", " ", "s", "e", "e", " ", ".", "/", "d", "o", "c", "s", "/",
      "g", "u", "i", "d", "e", ".", "m", "d">>

\* // see ../docs/guide.md
SEE_UP_GUIDE ==
    <<"/", "/", " ", "s", "e", "e", " ", ".", ".", "/", "d", "o", "c", "s",
      "/", "g", "u", "i", "d", "e", ".", "m", "d">>

\* // see https://api.example.com/docs
SEE_API ==
    <<"/", "/", " ", "s", "e", "e", " ", "h", "t", "t", "p", "s", ":", "/",
      "/", "a", "p", "i", ".", "e", "x", "a", "m", "p", "l", "e", ".", "c",
      "o", "m", "/", "d", "o", "c", "s">>

\* const x = 1;
NO_COMMENT ==
    <<"c", "o", "n", "s", "t", " ", "x", " ", "=", " ", "1", ";">>

\* <!-- ../src/app.js -->
BACK_LINK ==
    <<"<", "!", "-", "-", " ", ".", ".", "/", "s", "r", "c", "/", "a", "p",
      "p", ".", "j", "s", " ", "-", "-", ">">>

\* /* /docs/guide.md */
ROOTED ==
    <<"/", "*", " ", "/", "d", "o", "c", "s", "/", "g", "u", "i", "d", "e",
      ".", "m", "d", " ", "*", "/">>

\* # ../.
TO_ROOT ==
    <<"#", " ", ".", ".", "/", ".">>

\* -- ../../etc
OUTSIDE ==
    <<"-", "-", " ", ".", ".", "/", ".", ".", "/", "e", "t", "c">>

\* // ../docs/guide.md (newline) // ./app.js ./app.js
TWO_LINKS ==
    <<"/", "/", " ", ".", ".", "/", "d", "o", "c", "s", "/", "g", "u", "i",
      "d", "e", ".", "m", "d", "\n", "/", "/", " ", ".", "/", "a", "p",
      "p", ".", "j", "s", " ", ".", "/", "a", "p", "p", ".", "j", "s">>

\* // ../docs/guide.md (newline) // https://api.example.com/docs
REL_THEN_ABS ==
    <<"/", "/", " ", ".", ".", "/", "d", "o", "c", "s", "/", "g", "u", "i",
      "d", "e", ".", "m", "d", "\n", "/", "/", " ", "h", "t", "t", "p",
      "s", ":", "/", "/", "a", "p", "i", ".", "e", "x", "a", "m", "p", "l",
      "e", ".", "c", "o", "m", "/", "d", "o", "c", "s">>

\* .github/ci.yml
GITHUB_CI_YML ==
    <<".", "g", "i", "t", "h", "u", "b", "/", "c", "i", ".", "y", "m", "l">>

\* the file names git diff may print
FileNames == {SRC_APP_JS, DOCS_GUIDE_MD, README_MD, GITHUB_CI_YML}

\* what a changed file may hold (the empty text included)
Contents ==
    {SEE_DOT_GUIDE, SEE_UP_GUIDE, SEE_API, NO_COMMENT, BACK_LINK, ROOTED,
     TO_ROOT, OUTSIDE, TWO_LINKS, REL_THEN_ABS, <<>>}

\* the most lines git diff prints in a run
MaxFiles == 2

\* the lists of distinct names of at most n entries
RECURSIVE ListsUpTo(_)
ListsUpTo(n) ==
    IF n = 0 THEN {<<>>}
    ELSE LET shorter == ListsUpTo(n - 1)
         IN  shorter \cup
             {Append(l, f) : l \in {x \in shorter : Len(x) = n - 1},
                             f \in FileNames}

DiffOutputs ==
    {l \in ListsUpTo(MaxFiles) : \A i, j \in 1..Len(l) : i # j => l[i] # l[j]}

(***************************************************************************)
(* The run of check-links.ts                                               *)
(***************************************************************************)

VARIABLES
    pc,          \* where the run is
    existing,    \* the file names that exist in the working tree
    prNumber,    \* main's prNumber: TRUE once a number is known
    files,       \* main's files: the changed files, in git's order
    scanned,     \* how many of files parseFilesForLinks has mapped
    results,     \* the FileResult list
    templateName,\* the Template chosen by compileTemplateFromLinks
    report,      \* the link blocks written into linksMarkdown
    totalLinks,  \* the count handed to executeTemplate
    posted,      \* how many comments postComment has posted
    exitCode,    \* the exit status of the process, -1 while it runs
    reads,       \* what getFileContent returned for each file mapped so far
    template,    \* what getFileContent returned for the template file
    body,        \* the text executeTemplate returned
    thrown       \* the error that ended the run, "none" when none did

\* one file taken through the scan, step by step
VARIABLES
    xpc,         \* the step reached
    xContent,    \* the text of the file
    xComments,   \* what extractComments returned
    xLinks,      \* what extractLinks returned
    xResult,     \* what the map callback returned (a list of at most one)
    xBlocks      \* the link blocks written for that result

\* one call of checkLinkValidity on an absolute link
VARIABLES
    vpc,         \* where the call is
    vUrl,        \* the link: "wellformed", or "malformed" (no request can be made of it)
    req,         \* the ClientRequest: "none", "open" or "destroyed"
    outcome,     \* the promise the call returns
    idle,        \* the ms the socket has been inactive
    elapsed,     \* the ms since the request was made
    activity,    \* how often bytes arrived that completed no response
    events,      \* the events emitted so far: "response", "error", "timeout"
    eventAt      \* elapsed at the first response or error, -1 before

runVars == <<pc, existing, prNumber, files, scanned, results, templateName,
             report, totalLinks, posted, exitCode, reads, template, body, thrown>>
scanVars == <<xpc, xContent, xComments, xLinks, xResult, xBlocks>>
probeVars == <<vpc, vUrl, req, outcome, idle, elapsed, activity, events, eventAt>>
vars == <<runVars, scanVars, probeVars>>

\* enum LinkType
Absolute == "absolute"
Relative == "relative"

\* enum Template
NoLinks == "no-links"
AllUpdated == "all-updated"
Pending == "pending"

\* a mutant of LinkTypeOf: only the https scheme makes a link absolute
LinkTypeOfHttps(link) == IF startsWith(link, SCHEME_HTTPS) THEN Absolute ELSE Relative

\* the type parseFilesForLinks gives a link
LinkTypeOf(link) == IF startsWith(link, HTTP) THEN Absolute ELSE Relative

\* the Link objects parseFilesForLinks makes of the link texts
LinkData(ls) == [k \in 1..Len(ls) |-> [url |-> ls[k], type |-> LinkTypeOf(ls[k])]]

\* the end of the map callback of parseFilesForLinks: null (here the empty
\* list of results) when the file holds no link, the FileResult otherwise
FileResultOf(file, ls) ==
    IF Len(ls) = 0 THEN <<>>
    ELSE << [filename |-> file, links |-> LinkData(ls)] >>

\* a mutant of ParseFile: a file that cannot be read gives a result without
\* links
ParseFileKeepsUnreadable(file, content) ==
    IF ~content.ok THEN << [filename |-> file, links |-> <<>>] >>
    ELSE IF content.text = <<>> THEN <<>>
    ELSE FileResultOf(file, extractLinks(extractComments(content.text)))

\* what the map callback of parseFilesForLinks returns for one file: null
\* when the file cannot be read or is empty, else the result of the scan
ParseFile(file, content) ==
    IF ~content.ok \/ content.text = <<>> THEN <<>>
    ELSE FileResultOf(file, extractLinks(extractComments(content.text)))

\* a mutant of ResolvedPath: the link resolved against the working root, the
\* directory of the file left out
ResolvedPathFromRoot(filename, url) == resolve(<<CwdText, url>>)

\* the resolved path of a link found in a file
ResolvedPath(filename, url) == resolve(<<CwdText, dirname(filename), url>>)

\* a mutant of LinksUpdatedFrom: a link whose path relative to the working
\* root is empty is passed over (the guard "if (link.status.resolvedPath)")
RECURSIVE LinksUpdatedFromGuarded(_, _, _)
LinksUpdatedFromGuarded(result, k, changedFilePaths) ==
    IF k > Len(result.links) THEN TRUE
    ELSE LET link == result.links[k]
             resolvedPath == ResolvedPath(result.filename, link.url)
         IN  IF link.type = Absolute THEN FALSE
             ELSE IF relative(Cwd, resolvedPath) # <<>>
                     /\ resolvedPath \notin changedFilePaths
             THEN FALSE
             ELSE LinksUpdatedFromGuarded(result, k + 1, changedFilePaths)

\* the inner loop of checkAllLinksUpdated: FALSE when it returns false
RECURSIVE LinksUpdatedFrom(_, _, _)
LinksUpdatedFrom(result, k, changedFilePaths) ==
    IF k > Len(result.links) THEN TRUE
    ELSE LET link == result.links[k]
         IN  IF link.type = Absolute THEN FALSE
             ELSE IF ResolvedPath(result.filename, link.url) \notin changedFilePaths
             THEN FALSE
             ELSE LinksUpdatedFrom(result, k + 1, changedFilePaths)

\* a mutant of ResultsUpdatedFrom: "return true" inside the outer loop, so
\* that only the first result is looked at
ResultsUpdatedFirstOnly(rs, r, changedFilePaths) ==
    IF r > Len(rs) THEN TRUE
    ELSE LinksUpdatedFrom(rs[r], 1, changedFilePaths)

RECURSIVE ResultsUpdatedFrom(_, _, _)
ResultsUpdatedFrom(rs, r, changedFilePaths) ==
    IF r > Len(rs) THEN TRUE
    ELSE IF ~LinksUpdatedFrom(rs[r], 1, changedFilePaths) THEN FALSE
    ELSE ResultsUpdatedFrom(rs, r + 1, changedFilePaths)

\* a mutant of checkAllLinksUpdated: the changed files compared as git names
\* them, not resolved
checkAllLinksUpdatedUnresolved(rs, changedFiles) ==
    LET changedFilePaths == {Split(changedFiles[k]) : k \in 1..Len(changedFiles)}
    IN  ResultsUpdatedFrom(rs, 1, changedFilePaths)

checkAllLinksUpdated(rs, changedFiles) ==
    LET changedFilePaths == {resolve(<<changedFiles[k]>>) : k \in 1..Len(changedFiles)}
    IN  ResultsUpdatedFrom(rs, 1, changedFilePaths)

\* a mutant of ChooseTemplate: no branch for an empty result list
ChooseTemplateUnguarded(rs, changedFiles) ==
    IF checkAllLinksUpdated(rs, changedFiles) THEN AllUpdated ELSE Pending

\* the Template compileTemplateFromLinks picks
ChooseTemplate(rs, changedFiles) ==
    LET allLinksRelativeAndTouched == Len(rs) # 0 /\ checkAllLinksUpdated(rs, changedFiles)
    IN  IF Len(rs) = 0 THEN NoLinks
        ELSE IF allLinksRelativeAndTouched THEN AllUpdated ELSE Pending

\* the block compileTemplateFromLinks writes for one link: the url, its type,
\* for a relative link the path relative to the working root, and the file
LinkBlock(filename, link) ==
    [url |-> link.url,
     type |-> link.type,
     arrow |-> link.type = "relative",
     relativePath |-> IF link.type = "relative"
                      THEN relative(Cwd, ResolvedPath(filename, link.url))
                      ELSE <<>>,
     referencedIn |-> filename]

RECURSIVE LinkBlocks(_)
LinkBlocks(rs) ==
    IF rs = <<>> THEN <<>>
    ELSE [k \in 1..Len(Head(rs).links) |-> LinkBlock(Head(rs).filename, Head(rs).links[k])]
             \o LinkBlocks(Tail(rs))

RECURSIVE CountLinks(_)
CountLinks(rs) == IF rs = <<>> THEN 0 ELSE Len(Head(rs).links) + CountLinks(Tail(rs))

\* getFileContent returned null
NoRead == [ok |-> FALSE, text |-> <<>>]

ScanIdle ==
    /\ xpc = "idle"
    /\ xContent = <<>>
    /\ xComments = <<>>
    /\ xLinks = <<>>
    /\ xResult = <<>>
    /\ xBlocks = <<>>

\* the value of a promise: its state and, once fulfilled, the LinkStatus; a
\* statusCode of -1 and a message "" stand for an absent field
PendingOutcome ==
    [state |-> "pending", valid |-> FALSE, statusCode |-> -1, message |-> ""]

ProbeIdle ==
    /\ vpc = "idle"
    /\ vUrl = "none"
    /\ req = "none"
    /\ outcome = PendingOutcome
    /\ idle = 0
    /\ elapsed = 0
    /\ activity = 0
    /\ events = <<>>
    /\ eventAt = -1

Init ==
    /\ ScanIdle
    /\ ProbeIdle
    /\ pc = "load"
    /\ existing \in SUBSET FileNames
    /\ prNumber = FALSE
    /\ files = <<>>
    /\ scanned = 0
    /\ results = <<>>
    /\ templateName = "none"
    /\ report = <<>>
    /\ totalLinks = 0
    /\ posted = 0
    /\ exitCode = -1
    /\ reads = <<>>
    /\ template = NoRead
    /\ body = <<>>
    /\ thrown = "none"

\* the errors a run can end with
ERR_ACTION_PATH == "The paths[0] argument must be of type string"
ERR_REPOSITORY == "Cannot read properties of undefined (reading 'split')"
ERR_PR_NUMBER == "PR number not found"
ERR_TEMPLATE == "Template not found"
ERR_POST == "Command failed: gh pr comment"

\* the process ends with status code, after the error (or "none")
Exit(code, error) ==
    /\ pc' = "exited"
    /\ exitCode' = code
    /\ thrown' = error

\* the pieces of a template and of the text made of it: plain text, a
\* placeholder, the link count written out, the link blocks written out
TextPiece == [kind |-> "text", name |-> "", count |-> 0, links |-> <<>>]
Placeholder(name) == [kind |-> "placeholder", name |-> name, count |-> 0, links |-> <<>>]
CountPiece(n) == [kind |-> "count", name |-> "", count |-> n, links |-> <<>>]
LinksPiece(blocks) == [kind |-> "links", name |-> "", count |-> 0, links |-> blocks]

LINK_COUNT == "{{LINK_COUNT}}"
LINKS == "{{LINKS}}"
BROKEN_LINKS == "{{BROKEN_LINKS}}"
VALID_LINKS == "{{VALID_LINKS}}"

\* String.prototype.replace with a string pattern: the first occurrence only
ReplaceFirst(text, name, piece) ==
    LET at == {k \in 1..Len(text) : text[k] = Placeholder(name)}
    IN  IF at = {} THEN text
        ELSE [k \in 1..Len(text) |-> IF k = MinOf(at) THEN piece ELSE text[k]]

\* the two replace calls of executeTemplate
executeTemplate(text, linkCount, linksOutput) ==
    ReplaceFirst(ReplaceFirst(text, LINK_COUNT, CountPiece(linkCount)),
                 LINKS, LinksPiece(linksOutput))

\* the templates a template file may hold: the unified shape, the split
\* shape of the README, plain text, a placeholder used twice, no text at all
UNIFIED == <<TextPiece, Placeholder(LINK_COUNT), TextPiece, Placeholder(LINKS)>>
SPLIT == <<Placeholder(LINK_COUNT), Placeholder(BROKEN_LINKS), Placeholder(VALID_LINKS)>>
PLAIN == <<TextPiece>>
COUNT_TWICE == <<Placeholder(LINK_COUNT), Placeholder(LINKS), Placeholder(LINK_COUNT)>>
TemplateTexts == {UNIFIED, SPLIT, PLAIN, COUNT_TWICE, <<>>}

\* getFileContent on the template path
TemplateReads == {[ok |-> TRUE, text |-> t] : t \in TemplateTexts} \cup {NoRead}

\* the module's top level: templatePathsMap resolves three paths below
\* process.env.ACTION_PATH, and path.resolve throws on an undefined argument;
\* nothing catches at the top level, so the process dies with status 1
Load ==
    /\ pc = "load"
    /\ \E actionPath \in BOOLEAN :
          IF actionPath
          THEN pc' = "main" /\ UNCHANGED <<exitCode, thrown>>
          ELSE Exit(1, ERR_ACTION_PATH)
    /\ UNCHANGED <<existing, prNumber, files, scanned, results, templateName,
                   report, totalLinks, posted, reads, template, body>>
    /\ UNCHANGED <<scanVars, probeVars>>

\* getPRNumberFromEvent: the number of the event payload, null when the
\* payload cannot be read or carries none
getPRNumberFromEvent(event) == event = "number"

\* main up to the call of getChangedFiles: GITHUB_REPOSITORY is split (a
\* TypeError when it is undefined), the PR number is looked up and its
\* absence thrown; main().catch turns every throw into exit status 0
MainStart ==
    /\ pc = "main"
    /\ \E repository \in BOOLEAN, envNumber \in BOOLEAN,
          event \in {"unreadable", "no number", "number"} :
          LET n == envNumber \/ getPRNumberFromEvent(event)
          IN  IF ~repository
              THEN Exit(0, ERR_REPOSITORY) /\ UNCHANGED prNumber
              ELSE IF ~n
              THEN Exit(0, ERR_PR_NUMBER) /\ UNCHANGED prNumber
              ELSE pc' = "changed" /\ prNumber' = n /\ UNCHANGED <<exitCode, thrown>>
    /\ UNCHANGED <<existing, files, scanned, results, templateName, report,
                   totalLinks, posted, reads, template, body>>
    /\ UNCHANGED <<scanVars, probeVars>>

GITHUB_DIR == <<".", "g", "i", "t", "h", "u", "b", "/">>

\* a mutant of KeepFile: no test that the file exists
KeepFileUnchecked(f) ==
    IF f = <<>> THEN FALSE
    ELSE IF startsWith(f, GITHUB_DIR) THEN FALSE
    ELSE TRUE

\* the filter of getChangedFiles
KeepFile(f) ==
    IF f = <<>> \/ f \notin existing THEN FALSE
    ELSE IF startsWith(f, GITHUB_DIR) THEN FALSE
    ELSE TRUE

RECURSIVE Filter(_)
Filter(l) ==
    IF l = <<>> THEN <<>>
    ELSE IF KeepFile(Head(l)) THEN <<Head(l)>> \o Filter(Tail(l))
    ELSE Filter(Tail(l))

\* getChangedFiles: the lines git diff prints, filtered; the empty list when
\* git fails
getChangedFiles ==
    /\ pc = "changed"
    /\ \E gitOk \in BOOLEAN, output \in DiffOutputs :
          files' = IF gitOk THEN Filter(output) ELSE <<>>
    /\ pc' = "parse"
    /\ UNCHANGED <<existing, prNumber, scanned, results, templateName, report,
                   totalLinks, posted, exitCode, reads, template, body, thrown>>
    /\ UNCHANGED <<scanVars, probeVars>>

\* getFileContent: the text, or null when reading throws
FileReads == {[ok |-> TRUE, text |-> c] : c \in Contents} \cup {[ok |-> FALSE, text |-> <<>>]}

\* parseFilesForLinks, one file of the map at a time
parseFilesForLinks ==
    /\ pc = "parse"
    /\ scanned < Len(files)
    /\ \E content \in FileReads :
          /\ reads' = Append(reads, content)
          /\ results' = results \o ParseFile(files[scanned + 1], content)
    /\ scanned' = scanned + 1
    /\ UNCHANGED <<pc, existing, prNumber, files, templateName, report,
                   totalLinks, posted, exitCode, template, body, thrown>>
    /\ UNCHANGED <<scanVars, probeVars>>

\* a mutant of compileTemplateFromLinks: entered before the map is through
compileTemplateFromLinksEarly ==
    /\ pc = "parse"
    /\ scanned <= Len(files)
    /\ templateName' = ChooseTemplate(results, files)
    /\ report' = LinkBlocks(results)
    /\ totalLinks' = CountLinks(results)
    /\ \E read \in TemplateReads :
          /\ template' = read
          /\ IF ~read.ok \/ read.text = <<>>
             THEN Exit(0, ERR_TEMPLATE) /\ UNCHANGED body
             ELSE /\ body' = IF Len(results) = 0
                             THEN executeTemplate(read.text, 0, <<>>)
                             ELSE executeTemplate(read.text, CountLinks(results),
                                                  LinkBlocks(results))
                  /\ pc' = "post"
                  /\ UNCHANGED <<exitCode, thrown>>
    /\ UNCHANGED <<existing, prNumber, files, scanned, results, posted, reads>>
    /\ UNCHANGED <<scanVars, probeVars>>

\* compileTemplateFromLinks, entered once the map is through, with the
\* executeTemplate call that ends it: the template file is read, and a
\* template that cannot be read is thrown as "Template not found"
compileTemplateFromLinks ==
    /\ pc = "parse"
    /\ scanned = Len(files)
    /\ templateName' = ChooseTemplate(results, files)
    /\ report' = LinkBlocks(results)
    /\ totalLinks' = CountLinks(results)
    /\ \E read \in TemplateReads :
          /\ template' = read
          /\ IF ~read.ok \/ read.text = <<>>
             THEN Exit(0, ERR_TEMPLATE) /\ UNCHANGED body
             ELSE /\ body' = IF Len(results) = 0
                             THEN executeTemplate(read.text, 0, <<>>)
                             ELSE executeTemplate(read.text, CountLinks(results),
                                                  LinkBlocks(results))
                  /\ pc' = "post"
                  /\ UNCHANGED <<exitCode, thrown>>
    /\ UNCHANGED <<existing, prNumber, files, scanned, results, posted, reads>>
    /\ UNCHANGED <<scanVars, probeVars>>

\* postComment: the body is written to a file and handed to gh; either may
\* throw. After it main returns and the process ends with status 0
postComment ==
    /\ pc = "post"
    /\ \E ghOk \in BOOLEAN :
          /\ posted' = IF ghOk THEN posted + 1 ELSE posted
          /\ Exit(0, IF ghOk THEN "none" ELSE ERR_POST)
    /\ UNCHANGED <<existing, prNumber, files, scanned, results, templateName,
                   report, totalLinks, reads, template, body>>
    /\ UNCHANGED <<scanVars, probeVars>>

Next ==
    \/ Load
    \/ MainStart
    \/ getChangedFiles
    \/ parseFilesForLinks
    \/ compileTemplateFromLinks
    \/ postComment

Spec == Init /\ [][Next]_vars

(***************************************************************************)
(* The completeness decision                                               *)
(***************************************************************************)

\* the template has been chosen
Chosen == templateName # "none"

\* the places of the links of the run: result r, link k
Places ==
    UNION {{<<r, k>> : k \in 1..Len(results[r].links)} : r \in 1..Len(results)}

UrlAt(q) == results[q[1]].links[q[2]].url

IsAbsoluteText(t) == startsWith(t, SCHEME_HTTP) \/ startsWith(t, SCHEME_HTTPS)
IsRelativeText(t) ==
    \/ startsWith(t, <<".", "/">>)
    \/ startsWith(t, <<".", ".", "/">>)
    \/ startsWith(t, <<"/">>)

\* the changed-file set, as git names the files: relative to the working root
ChangedSet == {files[k] : k \in 1..Len(files)}

\* the resolved path of the link at q, relative to the working root
RootRelativeAt(q) == relative(Cwd, ResolvedPath(results[q[1]].filename, UrlAt(q)))

Touched(q) == RootRelativeAt(q) \in ChangedSet

C2_Premise(text) ==
    /\ Chosen
    /\ files = <<SRC_APP_JS, DOCS_GUIDE_MD>>
    /\ DOCS_GUIDE_MD \in existing
    /\ results = ParseFile(SRC_APP_JS, [ok |-> TRUE, text |-> text])

\* C2 as stated: the comment "// see ./docs/guide.md" in src/app.js, with
\* docs/guide.md changed, gives all-updated
C2_Original == C2_Premise(SEE_DOT_GUIDE) => templateName = AllUpdated

\* C2 as amended: that comment gives pending, since ./docs/guide.md found in
\* src/app.js resolves to src/docs/guide.md; the comment
\* "// see ../docs/guide.md" gives all-updated
C2_Amended ==
    /\ C2_Premise(SEE_DOT_GUIDE) => templateName = Pending
    /\ C2_Premise(SEE_UP_GUIDE) => templateName = AllUpdated

C2_Witness ==
    /\ C2_Premise(SEE_DOT_GUIDE)
    /\ Len(results) = 1
    /\ RootRelativeAt(<<1, 1>>) = <<"s", "r", "c", "/">> \o DOCS_GUIDE_MD

\* C3: an absolute link anywhere in the run gives pending
C3_AbsoluteGivesPending ==
    (Chosen /\ \E q \in Places : IsAbsoluteText(UrlAt(q))) => templateName = Pending

\* the absolute link is not the first link of the run, and a relative link
\* that is touched stands before it
C3_Witness ==
    /\ Chosen
    /\ templateName = Pending
    /\ \E q \in Places :
          /\ IsAbsoluteText(UrlAt(q))
          /\ q[1] = 2
          /\ \A p \in Places : p[1] = 1 => IsRelativeText(UrlAt(p)) /\ Touched(p)

\* C4: a relative link whose resolved path is no changed file gives pending,
\* whatever the path is
C4_StaleGivesPending ==
    (Chosen /\ \E q \in Places : IsRelativeText(UrlAt(q)) /\ ~Touched(q)) =>
        templateName = Pending

\* the one stale link of the run resolves to the working root itself
C4_Witness ==
    /\ Chosen
    /\ templateName = Pending
    /\ \E q \in Places :
          /\ IsRelativeText(UrlAt(q))
          /\ RootRelativeAt(q) = <<>>
          /\ \A p \in Places : p # q => IsRelativeText(UrlAt(p)) /\ Touched(p)

\* a stale link resolves to a path outside the working root
C4_WitnessOutside ==
    /\ Chosen
    /\ templateName = Pending
    /\ \E q \in Places :
          /\ IsRelativeText(UrlAt(q))
          /\ startsWith(RootRelativeAt(q), <<".", ".", "/">>)

\* C5: the template is no-links exactly when no file produced a link, that is
\* when the result list is empty; every result holds a link
C5_NoLinksIff ==
    /\ \A r \in 1..Len(results) : Len(results[r].links) > 0
    /\ Chosen =>
          /\ templateName = NoLinks <=> Len(results) = 0
          /\ templateName = NoLinks <=> totalLinks = 0
          /\ Len(results) = 0 => templateName \notin {AllUpdated, Pending}

\* files were scanned and none produced a link
C5_Witness ==
    /\ Chosen
    /\ templateName = NoLinks
    /\ Len(files) = 2
    /\ scanned = 2

(***************************************************************************)
(* One file through the scan: extractComments, extractLinks, the Link      *)
(* objects and the blocks of the report, on every text made of at most     *)
(* MaxTokens tokens                                                        *)
(***************************************************************************)

T_SLASHES == <<"/", "/">>
T_OPEN == <<"/", "*">>
T_CLOSE == <<"*", "/">>
T_HASH == <<"#">>
T_DASHES == <<"-", "-">>
T_HTML_OPEN == <<"<", "!", "-", "-">>
T_HTML_CLOSE == <<"-", "-", ">">>
T_SPACE == <<" ">>
T_NEWLINE == <<"\n">>
T_DOT_A == <<".", "/", "a">>
T_UP_A == <<".", ".", "/", "a">>
T_ROOT_A == <<"/", "a">>
T_HTTP_A == <<"h", "t", "t", "p", ":", "/", "/", "a">>
T_HTTPS_A == <<"h", "t", "t", "p", "s", ":", "/", "/", "a">>
T_X == <<"x">>

Tokens ==
    {T_SLASHES, T_OPEN, T_CLOSE, T_HASH, T_DASHES, T_HTML_OPEN, T_HTML_CLOSE,
     T_SPACE, T_NEWLINE, T_DOT_A, T_UP_A, T_ROOT_A, T_HTTP_A, T_HTTPS_A, T_X}

\* the most tokens of a generated text
MaxTokens == 3

RECURSIVE TextsUpTo(_)
TextsUpTo(n) ==
    IF n = 0 THEN {<<>>}
    ELSE LET shorter == TextsUpTo(n - 1)
         IN  shorter \cup {t \o tok : t \in shorter, tok \in Tokens}

\* // ./a ./a
DUP_IN_COMMENT ==
    <<"/", "/", " ", ".", "/", "a", " ", ".", "/", "a">>

\* # ./a /a (newline) # ../a ./a
DUP_IN_TWO_COMMENTS ==
    <<"#", " ", ".", "/", "a", " ", "/", "a", "\n", "#", " ", ".", ".",
      "/", "a", " ", ".", "/", "a">>

\* /* x (newline) // ./a (newline) */
DUP_BY_TWO_PATTERNS ==
    <<"/", "*", " ", "x", "\n", "/", "/", " ", ".", "/", "a", "\n", "*", "/">>

\* # http://a https://a ./a ../a /a
ALL_KINDS ==
    <<"#", " ", "h", "t", "t", "p", ":", "/", "/", "a", " ", "h", "t", "t",
      "p", "s", ":", "/", "/", "a", " ", ".", "/", "a", " ", ".", ".", "/",
      "a", " ", "/", "a">>

\* a comment of each syntax holding the link ./a
LinkComments ==
    {T_SLASHES \o T_DOT_A,
     T_HASH \o T_DOT_A,
     T_DASHES \o T_DOT_A,
     T_OPEN \o T_DOT_A \o T_SPACE \o T_CLOSE,
     T_HTML_OPEN \o T_DOT_A \o T_SPACE \o T_HTML_CLOSE}

\* such a comment indented, and after code on its line
OffsetComments == {p \o c : p \in {T_SPACE, T_X \o T_SPACE}, c \in LinkComments}

\* such a comment at the start of the first line, and of a later line
LineStartComments == LinkComments \cup {T_X \o T_NEWLINE \o c : c \in LinkComments}

\* the texts of the run, texts that repeat a link, one with every kind of
\* link, and comments at and off the start of a line
Examples ==
    Contents \cup {DUP_IN_COMMENT, DUP_IN_TWO_COMMENTS, DUP_BY_TWO_PATTERNS, ALL_KINDS}
        \cup OffsetComments \cup LineStartComments

ScanInputs == TextsUpTo(MaxTokens) \cup Examples

\* the file the text is read from
ScanFile == SRC_APP_JS

RunIdle ==
    /\ pc = "idle"
    /\ existing = {}
    /\ prNumber = FALSE
    /\ files = <<>>
    /\ scanned = 0
    /\ results = <<>>
    /\ templateName = "none"
    /\ report = <<>>
    /\ totalLinks = 0
    /\ posted = 0
    /\ exitCode = -1
    /\ reads = <<>>
    /\ template = NoRead
    /\ body = <<>>
    /\ thrown = "none"

ScanInit ==
    /\ RunIdle
    /\ ProbeIdle
    /\ xpc = "read"
    /\ xContent \in ScanInputs
    /\ xComments = <<>>
    /\ xLinks = <<>>
    /\ xResult = <<>>
    /\ xBlocks = <<>>

\* "if (!content) return null": an empty text ends the callback
ScanEmpty ==
    /\ xpc = "read"
    /\ xContent = <<>>
    /\ xpc' = "done"
    /\ UNCHANGED <<xContent, xComments, xLinks, xResult, xBlocks>>
    /\ UNCHANGED <<runVars, probeVars>>

ScanComments ==
    /\ xpc = "read"
    /\ xContent # <<>>
    /\ xComments' = extractComments(xContent)
    /\ xpc' = "comments"
    /\ UNCHANGED <<xContent, xLinks, xResult, xBlocks>>
    /\ UNCHANGED <<runVars, probeVars>>

ScanLinks ==
    /\ xpc = "comments"
    /\ xLinks' = extractLinks(xComments)
    /\ xpc' = "links"
    /\ UNCHANGED <<xContent, xComments, xResult, xBlocks>>
    /\ UNCHANGED <<runVars, probeVars>>

ScanResult ==
    /\ xpc = "links"
    /\ xResult' = FileResultOf(ScanFile, xLinks)
    /\ xpc' = "result"
    /\ UNCHANGED <<xContent, xComments, xLinks, xBlocks>>
    /\ UNCHANGED <<runVars, probeVars>>

ScanBlocks ==
    /\ xpc = "result"
    /\ xBlocks' = LinkBlocks(xResult)
    /\ xpc' = "done"
    /\ UNCHANGED <<xContent, xComments, xLinks, xResult>>
    /\ UNCHANGED <<runVars, probeVars>>

ScanNext ==
    \/ ScanEmpty
    \/ ScanComments
    \/ ScanLinks
    \/ ScanResult
    \/ ScanBlocks

SpecScan == ScanInit /\ [][ScanNext]_vars

(***************************************************************************)
(* Classification, deduplication and resolution                            *)
(***************************************************************************)

\* the type the leading characters of a link text call for
KindOfText(t) ==
    IF IsAbsoluteText(t) THEN Absolute
    ELSE IF IsRelativeText(t) THEN Relative
    ELSE "none"

\* C6: every link the extractor emits begins with http://, https://, ./, ../
\* or /; the type of its Link object is absolute for the first two and
\* relative for the others; the block of the report carries that type, and
\* the template choice treats the link as that type
C6_ClassifiedByPrefix ==
    /\ \A k \in 1..Len(xLinks) : KindOfText(xLinks[k]) # "none"
    /\ xResult # <<>> =>
          /\ Len(xResult[1].links) = Len(xLinks)
          /\ \A k \in 1..Len(xLinks) :
                /\ xResult[1].links[k].url = xLinks[k]
                /\ xResult[1].links[k].type = KindOfText(xLinks[k])
          /\ (\E k \in 1..Len(xLinks) : KindOfText(xLinks[k]) = Absolute) =>
                ChooseTemplate(xResult, <<ScanFile>>) = Pending
    /\ xpc = "done" /\ xContent # <<>> =>
          /\ Len(xBlocks) = Len(xLinks)
          /\ \A k \in 1..Len(xLinks) :
                /\ xBlocks[k].url = xLinks[k]
                /\ xBlocks[k].type = KindOfText(xLinks[k])
                /\ xBlocks[k].arrow <=> KindOfText(xLinks[k]) = Relative

\* a file with a link of each of the five prefixes, taken to the report
C6_Witness ==
    /\ xpc = "done"
    /\ \A prefix \in {SCHEME_HTTP, SCHEME_HTTPS, <<".", "/">>, <<".", ".", "/">>, <<"/">>} :
          \E k \in 1..Len(xBlocks) : startsWith(xBlocks[k].url, prefix)

\* everything the comments hand to links.add, in order
RECURSIVE RawMatches(_)
RawMatches(cs) ==
    IF cs = <<>> THEN <<>> ELSE CommentMatches(Head(cs)) \o RawMatches(Tail(cs))

\* the first occurrences of a sequence, in their order
FirstOccurrences(raw) ==
    LET first == {i \in 1..Len(raw) : \A j \in 1..(i - 1) : raw[j] # raw[i]}
    IN  [k \in 1..Cardinality(first) |->
            raw[CHOOSE i \in first : Cardinality({j \in first : j < i}) = k - 1]]

\* C7: the links of a file hold no text twice; they are the matches of its
\* comments, each at the place of its first discovery
C7_UniqueInDiscoveryOrder ==
    xpc \in {"links", "result", "done"} /\ xContent # <<>> =>
        /\ \A i, j \in 1..Len(xLinks) : i # j => xLinks[i] # xLinks[j]
        /\ xLinks = FirstOccurrences(RawMatches(xComments))

\* a text found again in a later comment, after other links
C7_Witness ==
    /\ xpc = "done"
    /\ Len(xComments) >= 2
    /\ Len(xLinks) >= 3
    /\ Len(RawMatches(xComments)) > Len(xLinks)
    /\ \E k \in 1..Len(CommentMatches(xComments[2])) :
          CommentMatches(xComments[2])[k] = xLinks[1]

\* the segments of dirname(F) joined with link L and normalised
JoinedSegments(filename, url) == Normalize(<<>>, Split(dirname(filename)) \o Split(url), TRUE)

\* the segments of a path text, none for the empty text
SegmentsOf(text) == IF text = <<>> THEN <<>> ELSE Split(text)

\* C8: the path the report gives a relative link is the normalised join of
\* the directory of its file with the link, relative to the working root and
\* never absolute, for each of the prefixes ./, ../ and /
C8_ResolvedIsJoin ==
    xpc = "done" =>
        \A k \in 1..Len(xBlocks) :
            IsRelativeText(xBlocks[k].url) =>
                /\ ~IsAbsolutePath(xBlocks[k].relativePath)
                /\ SegmentsOf(xBlocks[k].relativePath)
                      = JoinedSegments(xBlocks[k].referencedIn, xBlocks[k].url)

\* what does hold: C8 for the links that begin with a dot
C8_DotLinksJoin ==
    xpc = "done" =>
        \A k \in 1..Len(xBlocks) :
            startsWith(xBlocks[k].url, DOT) =>
                /\ ~IsAbsolutePath(xBlocks[k].relativePath)
                /\ SegmentsOf(xBlocks[k].relativePath)
                      = JoinedSegments(xBlocks[k].referencedIn, xBlocks[k].url)

(***************************************************************************)
(* checkLinkValidity on an absolute link (the version that probes links)   *)
(***************************************************************************)

\* the timeout option of client.get
TimeoutMs == 5000

\* the step of the clock
TickMs == 1000

\* the clock stops counting here
MaxElapsed == 7000

\* the most arrivals of bytes that complete no response
MaxActivity == 1

\* the status codes a response may carry
StatusCodes == {100, 199, 200, 204, 301, 399, 400, 404, 500, 599}

\* the messages of the errors a request may emit
ErrorMessages == {"ECONNREFUSED", "ENOTFOUND", "socket hang up"}

\* a mutant of ValidStatus: 400 counted as valid
ValidStatusThrough400(statusCode) == statusCode >= 200 /\ statusCode <= 400

\* the test of the response callback
ValidStatus(statusCode) == statusCode >= 200 /\ statusCode < 400

Fulfilled(valid, statusCode, message) ==
    [state |-> "fulfilled", valid |-> valid, statusCode |-> statusCode, message |-> message]

\* resolve(value): the first call settles the promise, a later one does nothing
Resolve(p, value) == IF p.state = "pending" THEN value ELSE p

\* what the timeout handler passes to resolve
TimeoutOutcome == Fulfilled(FALSE, -1, "Timeout")

ProbeInit ==
    /\ RunIdle
    /\ ScanIdle
    /\ vpc = "call"
    /\ vUrl \in {"wellformed", "malformed"}
    /\ req = "none"
    /\ outcome = PendingOutcome
    /\ idle = 0
    /\ elapsed = 0
    /\ activity = 0
    /\ events = <<>>
    /\ eventAt = -1

\* the executor of the promise: client.get makes the request, or throws on a
\* url it cannot parse, which rejects the promise
Request ==
    /\ vpc = "call"
    /\ IF vUrl = "malformed"
       THEN /\ outcome' = [PendingOutcome EXCEPT !.state = "rejected", !.message = "Invalid URL"]
            /\ UNCHANGED req
       ELSE /\ req' = "open"
            /\ UNCHANGED outcome
    /\ vpc' = "waiting"
    /\ UNCHANGED <<vUrl, idle, elapsed, activity, events, eventAt>>
    /\ UNCHANGED <<runVars, scanVars>>

\* a step of the clock while the socket is inactive
Tick ==
    /\ req = "open"
    /\ idle < TimeoutMs
    /\ idle' = idle + TickMs
    /\ elapsed' = IF elapsed + TickMs > MaxElapsed THEN MaxElapsed ELSE elapsed + TickMs
    /\ UNCHANGED <<vpc, vUrl, req, outcome, activity, events, eventAt>>
    /\ UNCHANGED <<runVars, scanVars>>

\* bytes arrive that complete no response (the connection made, a part of
\* the headers): the timeout option is the socket's inactivity timeout, and
\* the arrival starts it again
Activity ==
    /\ req = "open"
    /\ "response" \notin {events[k] : k \in 1..Len(events)}
    /\ activity < MaxActivity
    /\ idle > 0
    /\ idle' = 0
    /\ activity' = activity + 1
    /\ UNCHANGED <<vpc, vUrl, req, outcome, elapsed, events, eventAt>>
    /\ UNCHANGED <<runVars, scanVars>>

Emitted(e) == \E k \in 1..Len(events) : events[k] = e

\* the response callback
OnResponse ==
    /\ req = "open"
    /\ ~Emitted("response")
    /\ ~Emitted("error")
    /\ \E statusCode \in StatusCodes :
          outcome' = Resolve(outcome, Fulfilled(ValidStatus(statusCode), statusCode, ""))
    /\ events' = Append(events, "response")
    /\ eventAt' = IF eventAt = -1 THEN elapsed ELSE eventAt
    /\ idle' = 0
    /\ UNCHANGED <<vpc, vUrl, req, elapsed, activity>>
    /\ UNCHANGED <<runVars, scanVars>>

\* the "error" handler; a destroyed request that had no response emits the
\* error "socket hang up"
OnError ==
    /\ req \in {"open", "destroyed"}
    /\ ~Emitted("error")
    /\ req = "destroyed" => ~Emitted("response")
    /\ \E message \in ErrorMessages :
          /\ req = "destroyed" => message = "socket hang up"
          /\ outcome' = Resolve(outcome, Fulfilled(FALSE, -1, message))
    /\ events' = Append(events, "error")
    /\ eventAt' = IF eventAt = -1 /\ req = "open" THEN elapsed ELSE eventAt
    /\ req' = "destroyed"
    /\ UNCHANGED <<vpc, vUrl, idle, elapsed, activity>>
    /\ UNCHANGED <<runVars, scanVars>>

\* the "timeout" handler: the socket has been inactive for the timeout
OnTimeout ==
    /\ req = "open"
    /\ idle >= TimeoutMs
    /\ req' = "destroyed"
    /\ outcome' = Resolve(outcome, TimeoutOutcome)
    /\ events' = Append(events, "timeout")
    /\ UNCHANGED <<vpc, vUrl, idle, elapsed, activity, eventAt>>
    /\ UNCHANGED <<runVars, scanVars>>

\* the await of the caller: the call returns the value, or throws the
\* rejection
Return ==
    /\ vpc = "waiting"
    /\ outcome.state # "pending"
    /\ vpc' = IF outcome.state = "fulfilled" THEN "returned" ELSE "threw"
    /\ UNCHANGED <<vUrl, req, outcome, idle, elapsed, activity, events, eventAt>>
    /\ UNCHANGED <<runVars, scanVars>>

ProbeNext ==
    \/ Request
    \/ Tick
    \/ Activity
    \/ OnResponse
    \/ OnError
    \/ OnTimeout
    \/ Return

\* the program's own steps are taken, the clock runs and a timer that is due
\* fires
SpecProbe ==
    /\ ProbeInit
    /\ [][ProbeNext]_vars
    /\ WF_vars(Request)
    /\ WF_vars(Tick)
    /\ WF_vars(OnTimeout)
    /\ WF_vars(Return)

(***************************************************************************)
(* The outcome of a probe                                                  *)
(***************************************************************************)

\* C9: when the probe of an absolute link receives a response, the outcome
\* is valid exactly when the status code is in 200..399, and it records the
\* status code; when the probe ends in a network error, the outcome is
\* invalid, carries the message of the error and no status code.
C9_StatusDecides ==
    /\ (events # <<>> /\ events[1] = "response") =>
          /\ outcome.state = "fulfilled"
          /\ outcome.statusCode \in StatusCodes
          /\ outcome.valid = (outcome.statusCode \in 200..399)
          /\ outcome.message = ""
    /\ (events # <<>> /\ events[1] = "error") =>
          /\ outcome.state = "fulfilled"
          /\ outcome.valid = FALSE
          /\ outcome.message \in ErrorMessages
          /\ outcome.statusCode = -1

\* a call has returned the outcome of a response with the last valid status
C9_Witness ==
    /\ vpc = "returned"
    /\ events[1] = "response"
    /\ outcome = Fulfilled(TRUE, 399, "")

\* neither a response nor an error arrived in the first TimeoutMs
NoEventWithinBudget == eventAt = -1 \/ eventAt > TimeoutMs

\* C10: when neither a response nor a network error arrives within the
\* 5000 ms of the budget, the timeout has fired, the request is destroyed and
\* the call has resolved with valid false and the message "Timeout".
C10_TimeoutWithinBudget ==
    (NoEventWithinBudget /\ (elapsed > TimeoutMs \/ Emitted("timeout"))) =>
        /\ outcome = TimeoutOutcome
        /\ req = "destroyed"

\* what does hold of the timeout: when the timeout event is the first event,
\* the request is destroyed and the call has resolved with "Timeout"
IdleTimeoutResolves ==
    (events # <<>> /\ events[1] = "timeout") =>
        /\ outcome = TimeoutOutcome
        /\ req = "destroyed"

\* every call returns or throws
EventuallyReturns == (vpc = "call") ~> (vpc \in {"returned", "threw"})

\* no later event changes a settled outcome
OutcomeStable == [][outcome.state # "pending" => outcome' = outcome]_vars

\* an error follows the timeout that destroyed the request
LateErrorAfterTimeout ==
    /\ Len(events) = 2
    /\ events[1] = "timeout"
    /\ events[2] = "error"

(***************************************************************************)
(* Failures and the end of the run                                         *)
(***************************************************************************)

\* C11: the validation of an absolute link never throws: whatever the link,
\* a malformed url included, the promise of the call is never rejected and
\* the call never ends by throwing into the loop over the links.
C11_OutcomeAsData ==
    /\ outcome.state # "rejected"
    /\ vpc # "threw"

\* C12: the process always ends with exit status 0, whichever step failed.
C12_AlwaysExitsZero == pc = "exited" => exitCode = 0

\* C13: a run without a PR number ends with its own error before a file is
\* read, with no report composed or posted; and a run that ends before a
\* report is composed ended for that reason and no other.
C13_OnlyMissingNumberAborts ==
    /\ thrown = ERR_PR_NUMBER =>
          /\ pc = "exited"
          /\ files = <<>> /\ scanned = 0 /\ reads = <<>>
          /\ templateName = "none" /\ body = <<>> /\ posted = 0
    /\ (pc = "exited" /\ body = <<>>) => thrown = ERR_PR_NUMBER

\* what does hold: the run without a PR number ends before a file is read
MissingNumberAbortsFirst ==
    thrown = ERR_PR_NUMBER =>
        /\ pc = "exited"
        /\ files = <<>> /\ scanned = 0 /\ reads = <<>>
        /\ templateName = "none" /\ body = <<>> /\ posted = 0

\* a run with a PR number that read its files and ended on the template
AbortedOnTemplate ==
    /\ pc = "exited"
    /\ prNumber
    /\ scanned = Len(files)
    /\ Len(files) > 0
    /\ thrown = ERR_TEMPLATE

\* C14: when the template file of the chosen variant cannot be read, the run
\* does not end on it: a text is composed all the same (the built-in default
\* of the variant) and handed to postComment.
C14_MissingTemplateFallsBack ==
    (Chosen /\ ~template.ok) =>
        /\ thrown # ERR_TEMPLATE
        /\ body # <<>>
        /\ pc \in {"post", "exited"}

\* the results of the files mapped so far, the unreadable ones left out of
\* the list: each readable file taken through extractComments and
\* extractLinks on its own
RECURSIVE ScanOfReadable(_)
ScanOfReadable(k) ==
    IF k = 0 THEN <<>>
    ELSE ScanOfReadable(k - 1) \o
         (IF reads[k].ok
          THEN FileResultOf(files[k], extractLinks(extractComments(reads[k].text)))
          ELSE <<>>)

\* C15: a changed file that cannot be read is passed over and the scan goes
\* on: every file is mapped before the template is chosen, and the results
\* are those of the readable files alone, in their order.
C15_UnreadableSkipped ==
    /\ Len(reads) = scanned
    /\ results = ScanOfReadable(scanned)
    /\ Chosen => scanned = Len(files)

\* the first file could not be read, the second was scanned and holds a link
C15_Witness ==
    /\ Chosen
    /\ Len(files) = 2
    /\ ~reads[1].ok
    /\ reads[2].ok
    /\ Len(results) = 1
    /\ results[1].filename = files[2]

(***************************************************************************)
(* What the scan emits                                                     *)
(***************************************************************************)

\* the delimiters of the comment syntaxes
Punctuation ==
    {T_SLASHES, T_OPEN, T_CLOSE, T_HASH, T_DASHES, T_HTML_OPEN, T_HTML_CLOSE}

\* C16: no link the extractor emits is a bare comment delimiter, wherever in
\* the body of a comment the delimiter stands.
C16_NoBarePunctuation ==
    \A k \in 1..Len(xLinks) : xLinks[k] \notin Punctuation

\* what does hold: a delimiter at the very start of the body is stripped
\* before the patterns are matched and is never emitted from there
LeadingDelimiterStripped ==
    \A k \in 1..Len(xComments) :
        xComments[k] \in Punctuation => CommentMatches(xComments[k]) = <<>>

(***************************************************************************)
(* The composed report                                                     *)
(***************************************************************************)

\* the names of the placeholders left in a text
Unexpanded(text) ==
    {text[k].name : k \in {j \in 1..Len(text) : text[j].kind = "placeholder"}}

\* the link lists written into a text that are empty
EmptyLists(text) ==
    {k \in 1..Len(text) : text[k].kind = "links" /\ text[k].links = <<>>}

\* C17: the text composed from a template of the unified or of the split
\* shape holds no placeholder, and no list written for a placeholder is
\* empty (an empty list is written as a sentence saying so).
C17_NoPlaceholderLeft ==
    (body # <<>> /\ template.text \in {UNIFIED, SPLIT}) =>
        /\ Unexpanded(body) = {}
        /\ EmptyLists(body) = {}

\* what does hold: the unified shape is expanded, with the count of the
\* links, and its list is empty only for the no-links variant
UnifiedExpanded ==
    (body # <<>> /\ template.text = UNIFIED) =>
        /\ Unexpanded(body) = {}
        /\ body[2] = CountPiece(CountLinks(results))
        /\ body[4] = LinksPiece(LinkBlocks(results))
        /\ EmptyLists(body) # {} <=> templateName = NoLinks

\* the split shape has been composed
SplitComposed ==
    /\ body # <<>>
    /\ template.text = SPLIT
    /\ Unexpanded(body) = {BROKEN_LINKS, VALID_LINKS}

(***************************************************************************)
(* The order of the run                                                    *)
(***************************************************************************)

\* C18: in a run that ends without an error exactly one report is posted;
\* the template is chosen once and never changed; the choice and the post
\* come only when every changed file has been read and scanned.
C18_OneReportAfterScan ==
    /\ [](posted <= 1)
    /\ []((pc = "exited" /\ thrown = "none") => posted = 1)
    /\ [](Chosen => (scanned = Len(files) /\ Len(reads) = Len(files)))
    /\ [](posted = 1 => (Chosen /\ body # <<>>))
    /\ [][Chosen => templateName' = templateName]_vars
    /\ [][posted' # posted =>
            (posted' = posted + 1 /\ Chosen /\ scanned = Len(files))]_vars

\* a run over two files has ended without an error, its report posted
C18_Witness ==
    /\ pc = "exited"
    /\ thrown = "none"
    /\ Len(files) = 2
    /\ scanned = 2
    /\ Chosen
    /\ posted = 1

(***************************************************************************)
(* The two kinds of link, and where a comment may start                    *)
(***************************************************************************)

\* a lies inside b
Inside(a, b) ==
    \E i \in 1..(Len(b) - Len(a) + 1) : SubSeq(b, i, i + Len(a) - 1) = a

\* files of one comment that holds one url and nothing else like a path
OneUrlComments ==
    {d \o T_SPACE \o u : d \in {T_SLASHES, T_HASH, T_DASHES}, u \in {T_HTTP_A, T_HTTPS_A}}
        \cup {SEE_API}

\* C19: no relative link that is emitted lies inside an absolute link that is
\* emitted, and a comment that holds one url and nothing else like a path
\* gives exactly one link, an absolute one.
C19_ClassesDisjoint ==
    /\ \A i, j \in 1..Len(xLinks) :
          (KindOfText(xLinks[i]) = Relative /\ KindOfText(xLinks[j]) = Absolute) =>
              ~Inside(xLinks[i], xLinks[j])
    /\ (xpc \in {"links", "result", "done"} /\ xContent \in OneUrlComments) =>
          /\ Len(xLinks) = 1
          /\ KindOfText(xLinks[1]) = Absolute

\* what does hold: such a comment gives its url first, typed absolute, and
\* then the url without its scheme, typed relative
UrlEmittedTwice ==
    (xpc = "done" /\ xContent \in OneUrlComments) =>
        /\ Len(xLinks) = 2
        /\ KindOfText(xLinks[1]) = Absolute
        /\ xLinks[2] = SubSeq(xLinks[1], Len(xLinks[1]) - Len(xLinks[2]) + 1, Len(xLinks[1]))
        /\ startsWith(xLinks[2], T_SLASHES)
        /\ xResult[1].links[2].type = Relative

\* the link ./a is among the links found
FoundDotA == \E k \in 1..Len(xLinks) : xLinks[k] = T_DOT_A

\* C20: a comment of any of the five syntaxes gives its body, and the link
\* in it, wherever it starts: at the start of a line, indented, or after
\* code on the same line.
C20_ExtractedAnywhere ==
    (xpc \in {"links", "result", "done"} /\ xContent \in OffsetComments \cup LineStartComments) =>
        FoundDotA

\* what does hold: a comment is extracted exactly when it starts a line
OnlyAtLineStart ==
    xpc \in {"links", "result", "done"} =>
        /\ xContent \in LineStartComments => (Len(xComments) > 0 /\ FoundDotA)
        /\ xContent \in OffsetComments => xLinks = <<>>

(***************************************************************************)
(* The changed files exist                                                 *)
(***************************************************************************)

\* C21: every changed file the run keeps exists; so when the template is
\* all-updated, every link of the run is relative and the file it resolves
\* to exists, and a link to a file that does not exist gives pending.
C21_AllUpdatedTargetsExist ==
    /\ \A k \in 1..Len(files) : files[k] \in existing
    /\ (Chosen /\ templateName = AllUpdated) =>
          \A q \in Places :
              /\ results[q[1]].links[q[2]].type = Relative
              /\ IsRelativeText(UrlAt(q))
              /\ RootRelativeAt(q) \in existing
    /\ (Chosen /\ \E q \in Places : RootRelativeAt(q) \notin existing) =>
          templateName = Pending

\* the template is all-updated in a working tree from which a file is gone
C21_Witness ==
    /\ Chosen
    /\ templateName = AllUpdated
    /\ existing # FileNames
    /\ Len(results) > 0
    /\ \A q \in Places : RootRelativeAt(q) \in existing

\* a link to docs/guide.md, which is gone from the working tree, with every
\* other link touched: the template is pending
LinkToDeletedFile ==
    /\ Chosen
    /\ DOCS_GUIDE_MD \notin existing
    /\ templateName = Pending
    /\ \E q \in Places :
          /\ RootRelativeAt(q) = DOCS_GUIDE_MD
          /\ \A p \in Places : p # q => Touched(p)

=============================================================================
